---- MODULE Spec2Model ----
(***************************************************************************)
(* Model of shakedown's command line entry point, src/shakedown/cli/main.py *)
(*                                                                         *)
(*  - Spec     : the pytest plugin class `shakedown` (the report           *)
(*               aggregator): its hooks, driven by a test session.         *)
(*  - SpecAuth : the pre-flight part of cli(): option checks, cluster      *)
(*               probe and the credential chain, up to the engine start.   *)
(*                                                                         *)
(* Strings that the code splits or concatenates are modelled as sequences  *)
(* of their components: the node id "a::t1" is <<"a", "t1">>, the section  *)
(* name "Captured stdout call" is <<"Captured", "stdout", "call">>.        *)
(***************************************************************************)
EXTENDS Integers, Sequences, FiniteSets, TLC

VARIABLES
    \* ---- configuration (args) ----
    stdout_opt,      \* args['stdout']: the content filter
    stdout_inline,   \* args['stdout_inline']
    \* ---- class shakedown ----
    state,           \* shakedown.state: the set of its keys
    stdout,          \* shakedown.stdout: the buffered blocks
    files,           \* shakedown.tests['file']: the set of its keys
    tests,           \* shakedown.tests['test']: node id -> set of flags
    \* ---- the console ----
    stream,          \* what echo() has written, in order
    \* ---- observation of the run ----
    calls,           \* node id -> the calls of output() with status enabled
    produced,        \* the blocks output() has composed, in order
    err,             \* the exception a hook raised, or NoErr
    \* ---- the test session (pytest) ----
    sess,            \* "collect" | "run" | "done"
    collected,       \* collectors already reported
    todo,            \* node id -> phases whose report is still to come
    cur,             \* the report being dispatched to the hooks, or NoReport
    pend,            \* hooks still to be called with cur
    nreports,        \* reports dispatched so far
    suite,           \* "free" | "three": what the test suite under run does
    hookOrder,       \* which of the two per-report hooks pluggy calls first
    \* ---- cli(): pre-flight ----
    pc, cfg, env, inp, authenticated, token, nCalls, msgs, exitCode

aggVars  == <<stdout_opt, stdout_inline, state, stdout, files, tests, stream,
              calls, produced, err, sess, collected, todo, cur, pend, nreports, suite,
              hookOrder>>
authVars == <<pc, cfg, env, inp, authenticated, token, nCalls, msgs, exitCode>>
vars     == <<aggVars, authVars>>

----------------------------------------------------------------------------
(* Bounds *)

MaxReports  == 3     \* reports (collection and test) a free session dispatches
MaxSections == 2     \* captured sections one report carries

----------------------------------------------------------------------------
(* Values *)

NoText   == ""       \* None, or an empty text
NoErr    == "none"
NoReport == [nodeid |-> <<>>, when |-> "none", outcome |-> "none",
             sections |-> <<>>, crash |-> FALSE]

Filters  == {"pass", "fail", "skip", "all", "none"}
Outcomes == {"pass", "fail", "skip"}
Phases   == <<"setup", "call", "teardown">>

T1 == <<"a", "t1">>
T2 == <<"a", "t2">>
T3 == <<"b", "t1">>
Bad == <<"c">>                      \* a node id without "::"
Nodes      == {T1, T2, T3, Bad}
Collectors == {<<"a.py">>, <<>>}    \* <<>> is the empty node id
Ids        == Nodes \cup Collectors

CapturedStdoutCall  == <<"Captured", "stdout", "call">>
CapturedStdoutSetup == <<"Captured", "stdout", "setup">>
SecNames == {CapturedStdoutCall, CapturedStdoutSetup}
Section(name) == [name |-> name, content |-> "out"]

SectionLists ==
    UNION { [1..k -> {Section(s) : s \in SecNames}] : k \in 0..MaxSections }

CrashText == "error: reprcrash"

Last(s) == s[Len(s)]

----------------------------------------------------------------------------
(* echo(): one record per write *)

Rec(k, id, st, text) == [k |-> k, id |-> id, st |-> st, text |-> text]

Agg == [state |-> state, stdout |-> stdout, files |-> files, tests |-> tests,
        stream |-> stream, calls |-> calls, produced |-> produced, err |-> err]

echo(S, rec) == [S EXCEPT !.stream = Append(@, rec)]

Raise(S, e) == [S EXCEPT !.err = e]

\* A place that calls output(): the node it reports and the calling line.
Site(id, at) == [id |-> id, at |-> at]

----------------------------------------------------------------------------
(* shakedown.output(title, state, text, status) *)

\* lines 161-164: schr is assigned for these two states only
HasGlyph(st) == st \in {"fail", "pass"}

\* lines 167, 173: the marker is echoed unless inline output carries text
MarkerAlone(text) == ~stdout_inline \/ text = NoText

\* the filter is not consulted
FilterIgnored(st, text) == text # NoText

\* line 179
FilterShows(st, text) == text # NoText /\ stdout_opt \in {st, "all"}

\* lines 166-177
outputMarker(S, site, st, text, status) ==
    IF status /\ HasGlyph(st) /\ MarkerAlone(text)
    THEN echo(S, Rec("marker", site.id, st, NoText))
    ELSE S

\* the timing mode is not consulted
outputWriteNow(S, o) == echo(S, o)

\* lines 184-187
outputWrite(S, o) ==
    IF stdout_inline
    THEN echo(S, o)
    ELSE [S EXCEPT !.stdout = Append(@, o)]

\* lines 179-187
outputBlock(S, title, st, text) ==
    IF FilterShows(st, text)
    THEN IF ~HasGlyph(st)
         THEN Raise(S, "UnboundLocalError")      \* schr was never assigned
         ELSE LET o == Rec("block", title, st, text)
              IN  outputWrite([S EXCEPT !.produced = Append(@, o)], o)
    ELSE S

output(S, site, title, st, text, status) ==
    LET S0 == IF status
              THEN [S EXCEPT !.calls[site.id] = Append(@, [st |-> st, at |-> site.at])]
              ELSE S
    IN  outputBlock(outputMarker(S0, site, st, text, status), title, st, text)

----------------------------------------------------------------------------
(* The hooks *)

pytest_collectreport(S, report) ==
    LET S1 == IF "collect" \notin S.state
              THEN echo([S EXCEPT !.state = @ \cup {"collect"}],
                        Rec("head", <<>>, "", "Collecting and validating test files..."))
              ELSE S
    IN  IF report.nodeid # <<>>
        THEN output(echo(S1, Rec("item", report.nodeid, "", NoText)),
                    Site(report.nodeid, "collect"), report.nodeid, report.outcome,
                    report.longrepr, TRUE)
        ELSE S1

pytest_sessionstart(S) ==
    echo(S, Rec("head", <<>>, "", "Initiating testing phase..."))

Blank(S) == IF stdout_inline THEN echo(S, Rec("blank", <<>>, "", NoText)) ELSE S

\* the file registry is not consulted
FileNeverSeen(S, report_file) == FALSE

\* line 237
FileSeen(S, report_file) == report_file \in S.files

\* line 242
TestSeen(S, nodeid) == nodeid \in DOMAIN S.tests

\* the wrong key is looked up
TestedByFail(S, nodeid) == "fail" \in S.tests[nodeid]

\* lines 251, 279, 289
Tested(S, nodeid) == "tested" \in S.tests[nodeid]

\* the flag of line 276 is not looked up
SetupNeverShown(S, nodeid) == FALSE

\* line 273
SetupShown(S, nodeid) == "setup" \in S.tests[nodeid]

Flag(S, nodeid, f) == [S EXCEPT !.tests[nodeid] = @ \cup {f}]

pytest_report_teststatus(S, report) ==
    IF Len(report.nodeid) < 2
    THEN S                                     \* ValueError: return
    ELSE
    LET report_file == <<Head(report.nodeid)>>
        report_test == Tail(report.nodeid)
        S1 == IF "test" \notin S.state
              THEN echo([S EXCEPT !.state = @ \cup {"test"}],
                        Rec("head", <<>>, "", "Running individual tests..."))
              ELSE S
        S2 == IF ~FileSeen(S1, report_file)
              THEN echo(Blank([S1 EXCEPT !.files = @ \cup {report_file}]),
                        Rec("file", report_file, "", NoText))
              ELSE S1
        S3 == IF ~TestSeen(S2, report.nodeid)
              THEN echo(Blank([S2 EXCEPT !.tests = @ @@ (report.nodeid :> {})]),
                        Rec("label", report.nodeid, "", NoText))
              ELSE S2
        S4 == IF report.outcome = "fail"
              THEN Flag(S3, report.nodeid, "fail")
              ELSE S3
    IN  IF report.when = "teardown" /\ ~Tested(S4, report.nodeid)
        THEN output(S4, Site(report.nodeid, "teardown"), report.nodeid,
                    "pass", NoText, TRUE)
        ELSE S4

\* lines 272-283, one pass of the loop
logreportSection(S, report, sec) ==
    IF sec.name # CapturedStdoutCall
    THEN IF ~TestSeen(S, report.nodeid)
         THEN Raise(S, "KeyError")
         ELSE IF ~SetupShown(S, report.nodeid)
              THEN output(Flag(S, report.nodeid, "setup"),
                          Site(report.nodeid, "setup"),
                          <<Head(report.nodeid), Last(sec.name)>>,
                          report.outcome, sec.content, FALSE)
              ELSE S
    ELSE IF report.when = "call"
         THEN IF ~TestSeen(S, report.nodeid)
              THEN Raise(S, "KeyError")
              ELSE IF Tested(S, report.nodeid)
                   THEN output(S, Site(report.nodeid, "call"), report.nodeid,
                               report.outcome, sec.content, FALSE)
                   ELSE output(Flag(S, report.nodeid, "tested"),
                               Site(report.nodeid, "call"), report.nodeid,
                               report.outcome, sec.content, TRUE)
         ELSE S

\* lines 264-283: an exception ends the loop
RECURSIVE logreportSections(_, _, _)
logreportSections(S, report, secs) ==
    IF secs = <<>> \/ S.err # NoErr
    THEN S
    ELSE logreportSections(logreportSection(S, report, Head(secs)), report, Tail(secs))

\* lines 286-296
logreportCrash(S, report) ==
    IF ~report.crash \/ S.err # NoErr
    THEN S
    ELSE IF ~TestSeen(S, report.nodeid)
         THEN Raise(S, "KeyError")
         ELSE IF Tested(S, report.nodeid)
              THEN Blank(output(S, Site(report.nodeid, "crash"), report.nodeid,
                                "fail", CrashText, FALSE))
              ELSE output(Flag(S, report.nodeid, "tested"),
                          Site(report.nodeid, "crash"), report.nodeid,
                          "fail", CrashText, TRUE)

pytest_runtest_logreport(S, report) ==
    logreportCrash(logreportSections(S, report, report.sections), report)

RECURSIVE echoAll(_, _)
echoAll(S, blocks) ==
    IF blocks = <<>> THEN S ELSE echoAll(echo(S, Head(blocks)), Tail(blocks))

FinishHeader == Rec("head", <<>>, "", "Test phase completed.")

pytest_sessionfinish(S) ==
    LET S1 == echo(S, FinishHeader)
    IN  IF stdout_opt # NoText /\ S1.stdout # <<>>
        THEN echoAll(S1, S1.stdout)
        ELSE S1

----------------------------------------------------------------------------
(* The session that drives the hooks *)

Set(S) ==
    /\ state' = S.state
    /\ stdout' = S.stdout
    /\ files' = S.files
    /\ tests' = S.tests
    /\ stream' = S.stream
    /\ calls' = S.calls
    /\ produced' = S.produced
    /\ err' = S.err

\* The items each suite holds.
Items(s) == IF s = "three" THEN {T1, T2, T3} ELSE {T1, T2, Bad}

config == <<stdout_opt, stdout_inline, suite, hookOrder>>

InitAgg ==
    /\ suite \in {"free", "three"}
    /\ stdout_opt \in Filters
    /\ stdout_inline \in BOOLEAN
    /\ hookOrder \in {"teststatus", "logreport"}
    /\ state = {}
    /\ stdout = <<>>
    /\ files = {}
    /\ tests = <<>>
    /\ stream = <<>>
    /\ calls = [id \in Ids |-> <<>>]
    /\ produced = <<>>
    /\ err = NoErr
    /\ sess = "collect"
    /\ collected = {}
    /\ todo = [n \in Nodes |-> IF n \in Items(suite) THEN Phases ELSE <<>>]
    /\ cur = NoReport
    /\ pend = {}
    /\ nreports = 0

InitAuthIdle ==
    /\ pc = "idle"
    /\ cfg = <<>>
    /\ env = <<>>
    /\ inp = <<>>
    /\ authenticated = FALSE
    /\ token = NoText
    /\ nCalls = <<>>
    /\ msgs = <<>>
    /\ exitCode = -1

Init == InitAgg /\ InitAuthIdle

Running == sess = "run" /\ err = NoErr

CollectReport(c, outcome, longrepr) ==
    /\ sess = "collect" /\ err = NoErr
    /\ c \notin collected
    /\ nreports < MaxReports
    /\ collected' = collected \cup {c}
    /\ nreports' = nreports + 1
    /\ Set(pytest_collectreport(Agg, [nodeid |-> c, outcome |-> outcome,
                                      longrepr |-> longrepr]))
    /\ UNCHANGED <<config, sess, todo, cur, pend>>
    /\ UNCHANGED authVars

SessionStart ==
    /\ sess = "collect" /\ err = NoErr
    /\ sess' = "run"
    /\ Set(pytest_sessionstart(Agg))
    /\ UNCHANGED <<config, collected, todo, cur, pend, nreports>>
    /\ UNCHANGED authVars

\* The suite "three": T1 passes, T2 fails in its call, T3 is skipped in its
\* setup; each prints text, and a report carries the sections captured so far.
Report(n, when, outcome, secs, crash) ==
    [nodeid |-> n, when |-> when, outcome |-> outcome, sections |-> secs,
     crash |-> crash]

Scripted(n, when) ==
    IF n = T3
    THEN Report(n, when, IF when = "setup" THEN "skip" ELSE "pass",
                <<Section(CapturedStdoutSetup)>>, FALSE)
    ELSE IF when = "setup"
         THEN Report(n, when, "pass", <<>>, FALSE)
         ELSE IF when = "call" /\ n = T2
              THEN Report(n, when, "fail", <<Section(CapturedStdoutCall)>>, TRUE)
              ELSE Report(n, when, "pass", <<Section(CapturedStdoutCall)>>, FALSE)

\* pytest runs one item at a time: its setup, call and teardown reports.
InProgress(n) == todo[n] # Phases /\ todo[n] # <<>>

\* The engine produces the next report; cur keeps it until the next one.
BeginReport(n, outcome, secs, crash) ==
    /\ Running
    /\ pend = {}
    /\ todo[n] # <<>>
    /\ \A m \in Nodes \ {n} : ~InProgress(m)
    /\ crash => outcome = "fail"
    /\ suite = "free" => nreports < MaxReports
    /\ suite = "three" =>
          Report(n, Head(todo[n]), outcome, secs, crash) = Scripted(n, Head(todo[n]))
    /\ cur' = Report(n, Head(todo[n]), outcome, secs, crash)
    /\ pend' = {"teststatus", "logreport"}
    /\ todo' = [todo EXCEPT ![n] =
                  IF Head(@) = "setup" /\ outcome # "pass"
                  THEN <<"teardown">>        \* the call phase is not run
                  ELSE Tail(@)]
    /\ nreports' = nreports + 1
    /\ UNCHANGED <<config, state, stdout, files, tests, stream, calls, produced,
                   err, sess, collected>>
    /\ UNCHANGED authVars

ReportTestStatus ==
    /\ Running
    /\ "teststatus" \in pend
    /\ hookOrder = "logreport" => "logreport" \notin pend
    /\ Set(pytest_report_teststatus(Agg, cur))
    /\ pend' = pend \ {"teststatus"}
    /\ UNCHANGED <<config, sess, collected, todo, cur, nreports>>
    /\ UNCHANGED authVars

RuntestLogreport ==
    /\ Running
    /\ "logreport" \in pend
    /\ hookOrder = "teststatus" => "teststatus" \notin pend
    /\ Set(pytest_runtest_logreport(Agg, cur))
    /\ pend' = pend \ {"logreport"}
    /\ UNCHANGED <<config, sess, collected, todo, cur, nreports>>
    /\ UNCHANGED authVars

\* pytest calls pytest_sessionfinish also when a hook has raised.
SessionFinish ==
    /\ sess = "run"
    /\ pend = {} \/ err # NoErr
    /\ sess' = "done"
    /\ Set(pytest_sessionfinish(Agg))
    /\ UNCHANGED <<config, collected, todo, cur, pend, nreports>>
    /\ UNCHANGED authVars

Next ==
    \/ \E c \in Collectors, o \in Outcomes, l \in {NoText, "longrepr"} :
          CollectReport(c, o, l)
    \/ SessionStart
    \/ \E n \in Nodes, o \in Outcomes, s \in SectionLists, c \in BOOLEAN :
          BeginReport(n, o, s, c)
    \/ ReportTestStatus
    \/ RuntestLogreport
    \/ SessionFinish

Spec == Init /\ [][Next]_vars

----------------------------------------------------------------------------
(* cli(): the pre-flight checks and the credential chain                   *)
(*                                                                         *)
(* inp  : the options after read_config / set_config_defaults              *)
(* cfg  : the dcos client's persisted configuration                        *)
(* env  : what the collaborators answered, "-" while not yet asked         *)
(* nCalls : how often each collaborator operation was called               *)

None == NoText                     \* None and '' are both falsy

ErrUrl         == "error: --dcos-url is a required option"
ErrNotInstalled == "error: not installed"
ErrUnreachable == "error: cluster is unreachable"
ErrAuthFailed  == "error: authentication failed."
ErrNoCreds     == "error: no authentication credentials or token found."
Traceback      == "Traceback (most recent call last)"

Requirements == {"pytest", "dcos"}
SessionTokens == {"s1", "s2"}      \* what a token exchange may return

InitAuth ==
    /\ pc = "start"
    /\ inp \in [dcos_url : {None, "url"}, ssl_no_verify : BOOLEAN,
                oauth_token : {None, "oauth"}, username : {None, "user"},
                password : {None, "secret"}]
    /\ cfg \in [ssl_verify : {None}, dcos_url : {None},
                dcos_acs_token : {None, "t0"}]
    /\ env = [import |-> "-", dcos_version |-> "-", get_config_val |-> "-",
              dcos_leader |-> "-",
              authenticate_oauth |-> "-", authenticate |-> "-", main |-> "-"]
    /\ authenticated = FALSE
    /\ token = None
    /\ nCalls = [get_config_val |-> 0, set_token |-> 0, dcos_version |-> 0,
                 dcos_leader |-> 0, authenticate_oauth |-> 0, authenticate |-> 0,
                 main |-> 0]
    /\ msgs = <<>>
    /\ exitCode = -1

InitAggIdle ==
    /\ suite = "free"
    /\ stdout_opt = "fail"
    /\ stdout_inline = FALSE
    /\ hookOrder = "teststatus"
    /\ state = {}
    /\ stdout = <<>>
    /\ files = {}
    /\ tests = <<>>
    /\ stream = <<>>
    /\ calls = [id \in Ids |-> <<>>]
    /\ produced = <<>>
    /\ err = NoErr
    /\ sess = "collect"
    /\ collected = {}
    /\ todo = [n \in Nodes |-> Phases]
    /\ cur = NoReport
    /\ pend = {}
    /\ nreports = 0

\* click.secho(error) ; sys.exit(1)
Die(m) ==
    /\ msgs' = Append(msgs, m)
    /\ exitCode' = 1
    /\ pc' = "exit"

\* lines 41-43
CheckUrl ==
    /\ pc = "start"
    /\ IF inp.dcos_url = None
       THEN Die(ErrUrl)
       ELSE pc' = "requirements" /\ UNCHANGED <<msgs, exitCode>>
    /\ UNCHANGED <<cfg, env, inp, authenticated, token, nCalls>>
    /\ UNCHANGED aggVars

\* lines 60-70: missing is the first required module whose import fails
CheckRequirements(missing) ==
    /\ pc = "requirements"
    /\ env' = [env EXCEPT !.import = missing]
    /\ IF missing \in Requirements
       THEN Die(ErrNotInstalled)
       ELSE pc' = "config" /\ UNCHANGED <<msgs, exitCode>>
    /\ UNCHANGED <<cfg, inp, authenticated, token, nCalls>>
    /\ UNCHANGED aggVars

\* lines 72-78
SetConfig ==
    /\ pc = "config"
    /\ cfg' = [cfg EXCEPT !.ssl_verify = IF inp.ssl_no_verify THEN "False" ELSE @,
                          !.dcos_url = inp.dcos_url]
    /\ pc' = "cluster"
    /\ UNCHANGED <<env, inp, authenticated, token, nCalls, msgs, exitCode>>
    /\ UNCHANGED aggVars

\* lines 80-84
\* a failed probe is not fatal
CheckClusterGoesOn(answer) ==
    /\ pc = "cluster"
    /\ env' = [env EXCEPT !.dcos_version = answer]
    /\ nCalls' = [nCalls EXCEPT !.dcos_version = @ + 1]
    /\ pc' = "token"
    /\ UNCHANGED <<cfg, inp, authenticated, token, msgs, exitCode>>
    /\ UNCHANGED aggVars

CheckCluster(answer) ==
    /\ pc = "cluster"
    /\ env' = [env EXCEPT !.dcos_version = answer]
    /\ nCalls' = [nCalls EXCEPT !.dcos_version = @ + 1]
    /\ IF answer = "ok"
       THEN pc' = "token" /\ UNCHANGED <<msgs, exitCode>>
       ELSE Die(ErrUnreachable)
    /\ UNCHANGED <<cfg, inp, authenticated, token>>
    /\ UNCHANGED aggVars

\* lines 86-88
GetToken ==
    /\ pc = "token"
    /\ authenticated' = FALSE
    /\ token' = cfg.dcos_acs_token
    /\ env' = [env EXCEPT !.get_config_val = cfg.dcos_acs_token]
    /\ nCalls' = [nCalls EXCEPT !.get_config_val = @ + 1]
    /\ pc' = "existing"
    /\ UNCHANGED <<cfg, inp, msgs, exitCode>>
    /\ UNCHANGED aggVars

\* lines 89-97: only DCOSException is caught
ValidateExisting ==
    /\ pc = "existing"
    /\ IF token # None
       THEN \E answer \in {"ok", "DCOSException", "error"} :
            /\ env' = [env EXCEPT !.dcos_leader = answer]
            /\ nCalls' = [nCalls EXCEPT !.dcos_leader = @ + 1]
            /\ authenticated' = (answer = "ok")
            /\ IF answer = "error"
               THEN msgs' = Append(msgs, Traceback) /\ exitCode' = 1 /\ pc' = "exit"
               ELSE /\ msgs' = IF answer = "DCOSException"
                               THEN Append(msgs, ErrAuthFailed) ELSE msgs
                    /\ pc' = "oauth"
                    /\ UNCHANGED exitCode
       ELSE /\ pc' = "oauth"
            /\ UNCHANGED <<env, nCalls, authenticated, msgs, exitCode>>
    /\ UNCHANGED <<cfg, inp, token>>
    /\ UNCHANGED aggVars

\* whatever the exchange answered is persisted
ExchangeWritesAlways(op, answer) ==
    /\ env' = [env EXCEPT ![op] = answer]
    /\ token' = answer
    /\ cfg' = [cfg EXCEPT !.dcos_acs_token = answer]
    /\ nCalls' = [nCalls EXCEPT ![op] = @ + 1, !.set_token = @ + 1]
    /\ authenticated' = (answer \in SessionTokens)
    /\ msgs' = IF answer \in SessionTokens THEN msgs ELSE Append(msgs, ErrAuthFailed)

\* A token exchange and what the try block does with its answer.
Exchange(op, answer) ==
    /\ env' = [env EXCEPT ![op] = answer]
    /\ IF answer \in SessionTokens
       THEN /\ token' = answer
            /\ cfg' = [cfg EXCEPT !.dcos_acs_token = answer]
            /\ nCalls' = [nCalls EXCEPT ![op] = @ + 1, !.set_token = @ + 1]
            /\ authenticated' = TRUE
            /\ UNCHANGED msgs
       ELSE /\ msgs' = Append(msgs, ErrAuthFailed)
            /\ nCalls' = [nCalls EXCEPT ![op] = @ + 1]
            /\ UNCHANGED <<token, cfg, authenticated>>

\* lines 98-109
\* the OAuth exchange is tried whatever came before
TryOAuthAlways == inp.oauth_token # None

TryOAuth == ~authenticated /\ inp.oauth_token # None

ValidateOAuth ==
    /\ pc = "oauth"
    /\ IF TryOAuth
       THEN \E answer \in SessionTokens \cup {"fail"} :
               Exchange("authenticate_oauth", answer)
       ELSE UNCHANGED <<env, token, cfg, nCalls, authenticated, msgs>>
    /\ pc' = "password"
    /\ UNCHANGED <<inp, exitCode>>
    /\ UNCHANGED aggVars

\* lines 110-121
\* the password exchange is tried whatever came before
TryPasswordAlways == inp.username # None /\ inp.password # None

\* one of the two is taken to be enough
TryPasswordEither == ~authenticated /\ (inp.username # None \/ inp.password # None)

TryPassword == ~authenticated /\ inp.username # None /\ inp.password # None

ValidatePassword ==
    /\ pc = "password"
    /\ IF TryPassword
       THEN \E answer \in SessionTokens \cup {"fail"} :
               Exchange("authenticate", answer)
       ELSE UNCHANGED <<env, token, cfg, nCalls, authenticated, msgs>>
    /\ pc' = "check"
    /\ UNCHANGED <<inp, exitCode>>
    /\ UNCHANGED aggVars

\* lines 122-124
\* the outcome of the negotiation is not looked at
CheckAuthenticatedSkipped ==
    /\ pc = "check"
    /\ pc' = "engine"
    /\ UNCHANGED <<cfg, env, inp, authenticated, token, nCalls, msgs, exitCode>>
    /\ UNCHANGED aggVars

CheckAuthenticated ==
    /\ pc = "check"
    /\ IF ~authenticated
       THEN Die(ErrNoCreds)
       ELSE pc' = "engine" /\ UNCHANGED <<msgs, exitCode>>
    /\ UNCHANGED <<cfg, env, inp, authenticated, token, nCalls>>
    /\ UNCHANGED aggVars

\* lines 325-327
RunEngine(exitstatus) ==
    /\ pc = "engine"
    /\ env' = [env EXCEPT !.main = exitstatus]
    /\ nCalls' = [nCalls EXCEPT !.main = @ + 1]
    /\ exitCode' = exitstatus
    /\ pc' = "exit"
    /\ UNCHANGED <<cfg, inp, authenticated, token, msgs>>
    /\ UNCHANGED aggVars

ExitStatuses == 0..5

NextAuth ==
    \/ CheckUrl
    \/ \E m \in Requirements \cup {"none"} : CheckRequirements(m)
    \/ SetConfig
    \/ \E a \in {"ok", "error"} : CheckCluster(a)
    \/ GetToken
    \/ ValidateExisting
    \/ ValidateOAuth
    \/ ValidatePassword
    \/ CheckAuthenticated
    \/ \E x \in ExitStatuses : RunEngine(x)

InitCli == InitAuth /\ InitAggIdle

SpecAuth == InitCli /\ [][NextAuth]_vars

----------------------------------------------------------------------------
(* Properties of the report aggregator (checked under Spec)                *)

IsBlock(r) == r.k = "block"
Blocks(seq) == SelectSeq(seq, IsBlock)

\* What is rendered: written, or buffered for the flush at session finish.
Rendered == IF sess = "done" THEN stream ELSE stream \o stdout

\* The calls of output() with status enabled and a pass or fail state.
Markers(id) == {i \in DOMAIN calls[id] : HasGlyph(calls[id][i].st)}

CrashBlocks(n) ==
    {i \in DOMAIN Rendered : Rendered[i] = Rec("block", n, "fail", CrashText)}

Count(k, id) ==
    Cardinality({i \in DOMAIN stream : stream[i].k = k /\ stream[i].id = id})

\* The hook named has been called with the report cur.
Dispatched(hook) == cur # NoReport /\ hook \notin pend

\* pytest_report_teststatus has been called for n at least once.
Reported(n) ==
    /\ n \in Items(suite)
    /\ todo[n] # Phases
    /\ ~(cur.nodeid = n /\ cur.when = "setup" /\ "teststatus" \in pend)

Complete == sess = "done" /\ pend = {} /\ \A n \in Nodes : todo[n] = <<>>

\* C1: every test node id gets at most one terminal pass/fail marker (a call
\* of output with status enabled) over the whole run.
C1_AtMostOneMarker ==
    \A n \in Nodes : Cardinality(Markers(n)) <= 1

\* The case of C2: n was finalized as pass by the call-phase log report, and
\* the log report hook has now handled a crash-bearing teardown report of n.
C2_Case(n) ==
    /\ Len(calls[n]) >= 1
    /\ calls[n][1] = [st |-> "pass", at |-> "call"]
    /\ cur.nodeid = n /\ cur.when = "teardown" /\ cur.crash
    /\ Dispatched("logreport")

\* C2 as stated: under every filter and in both modes, a node finalized as
\* pass by its call-phase log report and then hit by a crash-bearing report has
\* exactly one marker, a pass marker, and exactly one failure-diagnostic block.
C2_OneBlockUnderEveryFilter ==
    \A n \in Nodes :
        C2_Case(n) =>
            /\ Cardinality(Markers(n)) = 1
            /\ calls[n][1].st = "pass"
            /\ Cardinality(CrashBlocks(n)) = 1

\* C2 amended: such a node has exactly one marker, the pass marker, and no
\* second one; the crash adds exactly one failure-diagnostic block when the
\* filter is fail or all, and none under the filters pass, skip and none.
C2_OneMarkerBlockIfFiltered ==
    \A n \in Nodes :
        C2_Case(n) =>
            /\ Cardinality(Markers(n)) = 1
            /\ Len(calls[n]) = 1
            /\ calls[n][1].st = "pass"
            /\ Cardinality(CrashBlocks(n)) =
                   IF stdout_opt \in {"fail", "all"} THEN 1 ELSE 0

C2_Witness ==
    \E n \in Nodes :
        /\ C2_Case(n)
        /\ stdout_opt = "fail"
        /\ Cardinality(CrashBlocks(n)) = 1

\* C3: whenever output is called for a test node with status enabled and a pass
\* or fail state, that same hook call writes the marker glyph to the stream (alone, or as the
\* head of the block it writes), whatever the filter, the mode and the text.
C3_MarkerWrittenAtOnce ==
    [][\A id \in Nodes :
          (Len(calls'[id]) > Len(calls[id]) /\ HasGlyph(Last(calls'[id]).st)) =>
              \E i \in (Len(stream) + 1)..Len(stream') :
                  /\ stream'[i].k \in {"marker", "block"}
                  /\ stream'[i].id = id
                  /\ stream'[i].st = Last(calls'[id]).st]_vars

\* C4: in deferred mode no block is in the stream before the session-finish
\* header, the blocks are only appended to the buffer, and the session finish
\* writes them after the header in their append order; in inline mode every
\* block is written by the hook call that composed it and the buffer is empty.
C4_DeferredAndInline ==
    /\ ~stdout_inline =>
          /\ stdout = produced
          /\ sess # "done" => Blocks(stream) = <<>>
          /\ sess = "done" =>
                \E i \in DOMAIN stream :
                    /\ stream[i] = FinishHeader
                    /\ Blocks(SubSeq(stream, 1, i)) = <<>>
                    /\ SubSeq(stream, i + 1, Len(stream)) = stdout
    /\ stdout_inline =>
          /\ stdout = <<>>
          /\ Blocks(stream) = produced

C4_Witness ==
    /\ ~stdout_inline
    /\ sess = "done"
    /\ Len(stdout) >= 2
    /\ stdout[1] # stdout[2]

\* The run of C5: the suite of three nodes (pass, fail with its crash
\* indicator, skip; each with captured text) has run to its end under the
\* filter fail, after a collection that reported no failure.
C5_Case ==
    /\ suite = "three" /\ stdout_opt = "fail" /\ Complete
    /\ \A c \in Collectors : \A i \in DOMAIN calls[c] : calls[c][i].st # "fail"

\* Every rendered block has the outcome the filter names, unless it is all.
OnlyFilteredBlocks ==
    \A i \in DOMAIN Rendered :
        IsBlock(Rendered[i]) => stdout_opt \in {Rendered[i].st, "all"}

\* C5 as stated: that run renders exactly one block in total, and no block is
\* ever rendered whose outcome differs from the filter unless the filter is all.
C5_ExactlyOneBlock ==
    /\ C5_Case => Len(Blocks(Rendered)) = 1
    /\ OnlyFilteredBlocks

\* C5 amended: that run renders exactly two blocks, both the failing node's
\* (its captured call output, then its crash diagnostic), in inline and in
\* deferred mode; and no block is ever rendered whose outcome differs from the
\* filter unless the filter is all.
C5_OnlyTheFailingNodesBlocks ==
    /\ C5_Case => Blocks(Rendered) = <<Rec("block", T2, "fail", "out"),
                                       Rec("block", T2, "fail", CrashText)>>
    /\ OnlyFilteredBlocks

C5_Witness == C5_Case /\ stdout_inline /\ Len(Blocks(stream)) = 2

\* C6: the file header of a prefix is printed exactly once, at the first status
\* event of a node with that prefix and before that node's label, and not again
\* for later nodes of the prefix; each node's label is printed exactly once.
C6_HeaderAndLabelOnce ==
    /\ \A n \in {m \in Nodes : Len(m) >= 2} :
          /\ Count("label", n) = IF Reported(n) THEN 1 ELSE 0
          /\ Reported(n) =>
                \E i, j \in DOMAIN stream :
                    /\ i < j
                    /\ stream[i] = Rec("file", <<Head(n)>>, "", NoText)
                    /\ stream[j] = Rec("label", n, "", NoText)
    /\ \A f \in {<<Head(n)>> : n \in Nodes} :
          Count("file", f) =
              IF \E n \in Nodes : Len(n) >= 2 /\ <<Head(n)>> = f /\ Reported(n)
              THEN 1 ELSE 0

C6_Witness == Reported(T1) /\ Reported(T2) /\ Count("label", T2) = 1

----------------------------------------------------------------------------
(* Properties of the credential chain (checked under SpecAuth)             *)

Msgs == {msgs[i] : i \in DOMAIN msgs}

\* The chain has found a persisted token.
FoundToken == env.get_config_val \notin {"-", None}

Succeeded == authenticated /\ ErrNoCreds \notin Msgs /\ (pc = "exit" => nCalls.main = 1)

\* C7: with a persisted token that the identity probe accepts, negotiation
\* succeeds with no OAuth and no password exchange, whatever was supplied, and
\* the persisted token is not rewritten.
C7_ValidTokenNoExchange ==
    (FoundToken /\ env.dcos_leader = "ok") =>
        /\ nCalls.authenticate_oauth = 0
        /\ nCalls.authenticate = 0
        /\ nCalls.set_token = 0
        /\ cfg.dcos_acs_token = env.get_config_val
        /\ Succeeded

C7_Witness ==
    /\ FoundToken /\ env.dcos_leader = "ok"
    /\ inp.oauth_token # None /\ inp.username # None /\ inp.password # None
    /\ pc = "exit"

\* The persisted token failed validation and an OAuth token was supplied.
C8_Case == env.dcos_leader = "DCOSException" /\ inp.oauth_token # None

\* C8: if the persisted token fails validation and a valid OAuth token was
\* supplied, exactly one OAuth exchange is made, no password exchange is made,
\* the persisted token is the one the exchange returned, negotiation succeeds.
C8_OneOAuthExchange ==
    /\ (C8_Case /\ pc \in {"password", "check", "engine", "exit"}) =>
          nCalls.authenticate_oauth = 1
    /\ (C8_Case /\ env.authenticate_oauth \in SessionTokens) =>
          /\ nCalls.authenticate_oauth = 1
          /\ nCalls.authenticate = 0
          /\ cfg.dcos_acs_token = env.authenticate_oauth
          /\ Succeeded

C8_Witness ==
    /\ C8_Case
    /\ env.authenticate_oauth = "s2"
    /\ inp.username # None /\ inp.password # None
    /\ pc = "exit"

\* No credential input: no persisted token, no OAuth token, and not both a
\* username and a password.
NoCredentialInput ==
    /\ env.get_config_val = None
    /\ inp.oauth_token = None
    /\ ~(inp.username # None /\ inp.password # None)

\* C9: without any credential input the process reports NoCredentialsFound and
\* exits nonzero, with no identity probe, no OAuth exchange and no password
\* exchange made, and the test engine is never started.
C9_NoCredentialsFound ==
    NoCredentialInput =>
        /\ nCalls.dcos_leader = 0
        /\ nCalls.authenticate_oauth = 0
        /\ nCalls.authenticate = 0
        /\ nCalls.main = 0
        /\ pc # "engine"
        /\ pc = "exit" => (Last(msgs) = ErrNoCreds /\ exitCode # 0)

C9_Witness == NoCredentialInput /\ pc = "exit" /\ inp.username # None

\* C10: NoCredentialsFound is reported only when no credential input was
\* supplied at all; when a credential was supplied or found and every
\* validation and exchange failed, AuthenticationFailed is reported and
\* NoCredentialsFound is not.
C10_ErrorsDistinguished ==
    /\ ErrNoCreds \in Msgs => NoCredentialInput
    /\ (pc = "exit" /\ nCalls.main = 0 /\ (FoundToken \/ inp.oauth_token # None)) =>
          ErrNoCreds \notin Msgs

\* The reachability probe (shakedown.dcos_version) has failed.
ProbeFailed == env.dcos_version = "error"

\* C11: the cluster URL, and the SSL-verify flag when requested, are in the
\* persisted configuration before the reachability probe runs; if the probe
\* fails the process reports the cluster unreachable and exits nonzero with no
\* persisted-token lookup, no identity probe, no OAuth or password exchange and
\* no token write.
C11_UnreachableNoChain ==
    /\ (pc = "cluster" \/ nCalls.dcos_version >= 1) =>
          /\ cfg.dcos_url = inp.dcos_url
          /\ inp.ssl_no_verify => cfg.ssl_verify = "False"
    /\ ProbeFailed =>
          /\ pc = "exit" /\ exitCode > 0
          /\ Last(msgs) = ErrUnreachable
          /\ nCalls.get_config_val = 0
          /\ nCalls.dcos_leader = 0
          /\ nCalls.authenticate_oauth = 0
          /\ nCalls.authenticate = 0
          /\ nCalls.set_token = 0
          /\ nCalls.main = 0

C11_Witness ==
    /\ ProbeFailed
    /\ inp.ssl_no_verify /\ inp.oauth_token # None
    /\ cfg.dcos_acs_token = "t0"
    /\ pc = "exit"

\* The process has exited without starting the test engine.
PreflightFailed == pc = "exit" /\ nCalls.main = 0

\* C12: the test engine is started only after the negotiation has run to its
\* end and succeeded, and the exit code of a completed run is the engine's exit
\* status; every pre-flight failure exits with the code 1 and the engine is
\* never started.
C12_EngineAfterNegotiation ==
    /\ nCalls.main <= 1
    /\ pc = "engine" => authenticated
    /\ nCalls.main = 1 =>
          /\ authenticated
          /\ pc = "exit"
          /\ exitCode = env.main
    /\ PreflightFailed => exitCode = 1
    /\ (pc = "exit" /\ Msgs \cap {ErrUrl, ErrNotInstalled, ErrUnreachable,
                                  ErrNoCreds, Traceback} # {}) =>
          PreflightFailed

C12_Witness == pc = "exit" /\ nCalls.main = 1 /\ exitCode = 3

\* The credential chain (lines 86-121) has been run to its end.
ChainDone ==
    \/ pc \in {"check", "engine"}
    \/ pc = "exit" /\ nCalls.get_config_val = 1 /\ env.dcos_leader # "error"

\* C15: each strategy of the chain is attempted at most once; the identity
\* probe comes before the OAuth exchange, which comes before the password
\* exchange; an exchange is attempted only if everything attempted before it
\* failed; the password exchange is attempted only with both a username and a
\* password, and then also after a failed OAuth exchange.
C15_ChainInOrder ==
    /\ [](/\ nCalls.dcos_leader <= 1
          /\ nCalls.authenticate_oauth <= 1
          /\ nCalls.authenticate <= 1
          /\ nCalls.authenticate_oauth = 1 =>
                /\ env.dcos_leader \in {"-", "DCOSException"}
                /\ inp.oauth_token # None
          /\ nCalls.authenticate = 1 =>
                /\ env.dcos_leader \in {"-", "DCOSException"}
                /\ env.authenticate_oauth \in {"-", "fail"}
                /\ inp.username # None /\ inp.password # None
          /\ (/\ ChainDone
              /\ env.dcos_leader \in {"-", "DCOSException"}
              /\ env.authenticate_oauth \in {"-", "fail"}
              /\ inp.username # None /\ inp.password # None) =>
                nCalls.authenticate = 1)
    /\ [][/\ nCalls'.dcos_leader > nCalls.dcos_leader =>
                nCalls.authenticate_oauth = 0 /\ nCalls.authenticate = 0
          /\ nCalls'.authenticate_oauth > nCalls.authenticate_oauth =>
                nCalls.authenticate = 0 /\ pc # "existing"]_vars

C15_Witness ==
    /\ env.dcos_leader = "DCOSException"
    /\ env.authenticate_oauth = "fail"
    /\ nCalls.authenticate = 1
    /\ env.authenticate \in SessionTokens

\* C20: the persisted token changes only in the step of a successful OAuth or
\* password exchange, to the token that exchange returned, and every successful
\* exchange is persisted; when the process ends in a fatal error no token has
\* been written and the persisted token is the one found before negotiation.
C20_TokenWrittenOnSuccess ==
    /\ [](PreflightFailed =>
             /\ nCalls.set_token = 0
             /\ cfg.dcos_acs_token \in {None, "t0"}
             /\ nCalls.get_config_val = 1 => cfg.dcos_acs_token = env.get_config_val)
    /\ [][/\ (cfg'.dcos_acs_token # cfg.dcos_acs_token
                 \/ nCalls'.set_token # nCalls.set_token) =>
                \E op \in {"authenticate_oauth", "authenticate"} :
                    /\ nCalls'[op] = nCalls[op] + 1
                    /\ env'[op] \in SessionTokens
                    /\ cfg'.dcos_acs_token = env'[op]
                    /\ nCalls'.set_token = nCalls.set_token + 1
          /\ \A op \in {"authenticate_oauth", "authenticate"} :
                (nCalls'[op] > nCalls[op] /\ env'[op] \in SessionTokens) =>
                    cfg'.dcos_acs_token = env'[op]]_vars

C20_Witness ==
    /\ PreflightFailed
    /\ env.dcos_leader = "DCOSException"
    /\ env.authenticate_oauth = "fail"
    /\ env.authenticate = "fail"
    /\ cfg.dcos_acs_token = "t0"

----------------------------------------------------------------------------
(* Further properties of the report aggregator (checked under Spec)        *)

\* C13: a log report that refers to a node id not in the registry (carrying
\* captured sections or a crash indicator before any status event of that id)
\* is handled normally: the lookup of the node never fails with KeyError.
C13_UnregisteredNodeHandled == err # "KeyError"

\* C14: for a node id without the separator, once the status hook has handled
\* a report of it the node is registered, is marked failed if the report
\* failed, and has its terminal marker if the report is the teardown one; and
\* the log report hook handles its reports without error.
C14_NoSeparatorOnlyLosesHeader ==
    \A n \in {m \in Nodes : Len(m) < 2} :
        /\ (cur.nodeid = n /\ Dispatched("teststatus")) =>
              /\ n \in DOMAIN tests
              /\ cur.outcome = "fail" => "fail" \in tests[n]
              /\ cur.when = "teardown" => calls[n] # <<>>
        /\ (cur.nodeid = n /\ Dispatched("logreport")) => err = NoErr

\* The node is finalized: lines 282 and 295 have set its 'tested' flag.
Finalized(n) == n \in DOMAIN tests /\ "tested" \in tests[n]

\* What the step has written to the console.
Written == (Len(stream) + 1)..Len(stream')

\* C16: a finalized node was finalized by exactly one call of output with
\* status enabled, made for a call-phase capture or a crash, and nothing was
\* emitted for it with status enabled since; no later step un-finalizes the
\* node, calls output for it with status enabled or writes a marker for it:
\* whatever a later step writes for the node is a block.
C16_FinalizedNeverRegresses ==
    /\ [](\A n \in Nodes :
             Finalized(n) =>
                 /\ calls[n] # <<>>
                 /\ Last(calls[n]).at \in {"call", "crash"}
                 /\ \A i \in 1..(Len(calls[n]) - 1) : calls[n][i].at = "teardown")
    /\ [][\A n \in Nodes :
             Finalized(n) =>
                 /\ Finalized(n)'
                 /\ calls'[n] = calls[n]
                 /\ \A i \in Written : stream'[i].id = n => IsBlock(stream'[i])]_vars

C16_Witness ==
    \E n \in Nodes :
        /\ Finalized(n)
        /\ calls[n] = <<[st |-> "fail", at |-> "crash"]>>
        /\ cur.nodeid = n /\ cur.when = "teardown" /\ cur.crash
        /\ Dispatched("teststatus") /\ Dispatched("logreport")
        /\ Cardinality(CrashBlocks(n)) = 2

\* C17: a node that the status hook has marked failed (line 249) has no pass
\* marker from the teardown path of the status hook (line 252).
C17_FailedNodeNoPassMarker ==
    \A n \in DOMAIN tests :
        "fail" \in tests[n] =>
            \A i \in DOMAIN calls[n] :
                calls[n][i] # [st |-> "pass", at |-> "teardown"]

\* A block of a non-call capture: its title is the module and the phase label.
IsSetupBlock(r) == IsBlock(r) /\ Len(r.id) = 2 /\ r.id[2] = "setup"

SetupBlocks(seq) == Len(SelectSeq(seq, IsSetupBlock))

\* The report cur carries non-call captures only, and no crash indicator.
OnlySetupCaptures ==
    /\ ~cur.crash
    /\ \A i \in DOMAIN cur.sections : cur.sections[i].name # CapturedStdoutCall

\* C18: one hook call composes at most one block of a non-call capture, and
\* only for a node that had none before (the node's 'setup' flag, once set,
\* stays set); handling a report that carries only
\* such captures calls output with status enabled for no node, writes no
\* marker and leaves the node unfinalized; and a node with such a capture has
\* had a call of output with status enabled once the status hook has handled
\* its teardown report.
C18_SetupCaptureOnce ==
    /\ [](\A n \in DOMAIN tests :
             (/\ "setup" \in tests[n]
              /\ cur.nodeid = n /\ cur.when = "teardown"
              /\ Dispatched("teststatus")) => calls[n] # <<>>)
    /\ [][/\ \A n \in DOMAIN tests :
                "setup" \in tests[n] => n \in DOMAIN tests' /\ "setup" \in tests'[n]
          /\ SetupBlocks(produced') > SetupBlocks(produced) =>
             /\ SetupBlocks(produced') = SetupBlocks(produced) + 1
             /\ cur.nodeid \in DOMAIN tests
             /\ "setup" \notin tests[cur.nodeid]
             /\ "setup" \in tests'[cur.nodeid]
             /\ OnlySetupCaptures =>
                   /\ calls' = calls
                   /\ tests'[cur.nodeid] = tests[cur.nodeid] \cup {"setup"}
                   /\ \A i \in Written : stream'[i].k # "marker"]_vars

C18_Witness ==
    \E n \in DOMAIN tests :
        /\ "setup" \in tests[n] /\ "tested" \notin tests[n]
        /\ SetupBlocks(Rendered) = 1
        /\ calls[n] = <<[st |-> "pass", at |-> "teardown"]>>

\* C19: a skip outcome is handled without error under every filter and in
\* both modes: output never fails on its unassigned glyph when a skip carries
\* text and the filter is skip or all.
C19_SkipHandled == err # "UnboundLocalError"

====
